---- MODULE Spec2Model ----
(***************************************************************************)
(* Alert generation and delivery pipeline of AI-Guardian:                  *)
(*   backend/app.py                        background loops, websocket     *)
(*                                         handlers, broadcast_update      *)
(*   backend/alerts/notification_engine.py AlertEngine.send_alert          *)
(* asyncio runs every coroutine on one thread: a coroutine runs without    *)
(* interruption from one await that suspends to the next, so each action   *)
(* below is the code one task runs between two suspensions.                *)
(*                                                                         *)
(* swept, dispatched, evaluated and iterated are event variables: they     *)
(* hold what the step that led to the state completed (a broadcast_update  *)
(* call, a send_alert call, an evaluate call, a loop iteration) and are    *)
(* empty after any other step.                                             *)
(* latest is a history variable: it relates the sensor data saved and read *)
(* to the update a data sweep is delivering.                               *)
(***************************************************************************)
EXTENDS Integers, Sequences, FiniteSets, TLC

\* ---------------------------------------------------------------- bounds
MaxClients == 2      \* websocket connections ever opened
MaxLocations == 2    \* locations returned by get_latest_sensor_data()
MaxAlerts == 2       \* alerts triggered over the whole run
MaxFailures == 2     \* consecutive failed iterations counted (saturating)

\* ------------------------------------------------------ program constants
COLLECT_INTERVAL == 60
PREDICT_INTERVAL == 300

Clients == 1..MaxClients
Tasks == {"coll", "pred"}

\* what can be inside broadcast_update: the two loops and the request handler
\* of POST /api/v1/alerts/manual
Publishers == Tasks \cup {"manual"}

VARIABLES
    connected_clients,  \* app.py: the global set of websockets
    handler,            \* per websocket: "new", "serving", "closed" ("failed": ended by an error)
    sweep,              \* per publisher: the broadcast_update call it is suspended in
    pc,                 \* per publisher: where the loop (the request handler) is
    failures,           \* per task: consecutive iterations that ended in except
    sleepFor,           \* per task: the argument of the asyncio.sleep it is in
    nLocs,              \* prediction loop: len(sensor_data) of this iteration
    locIdx,             \* prediction loop: index of location_data in sensor_data
    alerts_triggered,   \* prediction loop: alerts of the location still to handle
    alerts,             \* AlertEngine.alerts: id -> alert
    nextId,             \* ids handed out so far + 1 (uuid4: never reused)
    swept,              \* event: the broadcast_update call that just ended
    dispatched,         \* event: the send_alert call that just ended
    evaluated,          \* event: the alert_rules.evaluate call that just ended
    latest,             \* the saved sensor data against the update being swept
    iterated            \* event: the loop iteration that just ended

vars == <<connected_clients, handler, sweep, pc, failures, sleepFor, nLocs, locIdx,
          alerts_triggered, alerts, nextId, swept, dispatched, evaluated, latest, iterated>>

Min(a, b) == IF a < b THEN a ELSE b
Range(s) == {s[i] : i \in DOMAIN s}

\* ------------------------------------------------------------- scheduler

lifespan_awaits_first == [t \in Tasks |-> IF t = "coll" THEN "start" ELSE "not_started"]

\* asyncio.create_task for both loops: both are at the top of their while
lifespan == [t \in Tasks |-> "start"]

Interval(t) == IF t = "coll" THEN COLLECT_INTERVAL ELSE PREDICT_INTERVAL

RetryInterval_backoff(t, nfail) == IF nfail > 1 THEN 2 * Interval(t) ELSE Interval(t)

RetryInterval(t, nfail) == Interval(t)

NoIteration == [task |-> "none", raised |-> FALSE, locIdx |-> 0, nLocs |-> 0]

\* the task goes on inside its iteration, at label
GoTo(t, label) ==
    /\ pc' = [pc EXCEPT ![t] = label]
    /\ iterated' = NoIteration
    /\ UNCHANGED <<failures, sleepFor, nLocs, locIdx, alerts_triggered>>

\* the iteration is over: the task enters asyncio.sleep
EndIteration(t, raised, interval) ==
    /\ pc' = [pc EXCEPT ![t] = "sleep"]
    /\ failures' = [failures EXCEPT ![t] = IF raised THEN Min(@ + 1, MaxFailures) ELSE 0]
    /\ sleepFor' = [sleepFor EXCEPT ![t] = interval]
    /\ iterated' = [task |-> t, raised |-> raised,
                    locIdx |-> IF t = "pred" THEN locIdx ELSE 0,
                    nLocs |-> IF t = "pred" THEN nLocs ELSE 0]
    /\ IF t = "pred"
       THEN nLocs' = 0 /\ locIdx' = 0 /\ alerts_triggered' = <<>>
       ELSE UNCHANGED <<nLocs, locIdx, alerts_triggered>>

\* await asyncio.sleep(60) / await asyncio.sleep(300) at the end of the try body
Sleep(t) == EndIteration(t, FALSE, Interval(t))

\* except Exception as e: logger.error(...); await asyncio.sleep(...)
Except(t) == EndIteration(t, TRUE, RetryInterval(t, failures[t] + 1))

\* ------------------------------------------------------- rule evaluator

Hazards == <<"flood", "fire", "pollution">>

severity_strict(s) ==
    IF s > 80 THEN "critical"
    ELSE IF s > 60 THEN "high"
    ELSE IF s > 40 THEN "moderate"
    ELSE IF s > 20 THEN "low"
    ELSE "none"

severity(s) ==
    IF s >= 80 THEN "critical"
    ELSE IF s >= 60 THEN "high"
    ELSE IF s >= 40 THEN "moderate"
    ELSE IF s >= 20 THEN "low"
    ELSE "none"

HasScore(h) == "risk_score" \in DOMAIN h

RECURSIVE evaluateFrom(_, _)
evaluateFrom(results, i) ==
    IF i > Len(Hazards) THEN <<>>
    ELSE LET h == results[Hazards[i]]
             rest == evaluateFrom(results, i + 1)
         IN IF HasScore(h) /\ severity(h.risk_score) # "none"
            THEN <<[type |-> Hazards[i], severity |-> severity(h.risk_score)]>> \o rest
            ELSE rest

\* a hazard result without a score ends the whole call
evaluate_aborts(results) ==
    IF \A i \in 1..Len(Hazards) : HasScore(results[Hazards[i]])
    THEN evaluateFrom(results, 1)
    ELSE <<>>

evaluate(results) == evaluateFrom(results, 1)

Score(n) == [risk_score |-> n]
NoScore == [aqi |-> 0]    \* the pollution predictor returns aqi, no risk_score

\* the predictors' results for one location: a few representative triples
HazardResults ==
    { [flood |-> Score(10), fire |-> Score(10), pollution |-> NoScore],
      [flood |-> Score(10), fire |-> Score(85), pollution |-> NoScore],
      [flood |-> Score(70), fire |-> Score(10), pollution |-> NoScore],
      [flood |-> Score(30), fire |-> Score(50), pollution |-> NoScore] }

\* ------------------------------------------------------------ predictors
\* Scores are whole percents and the readings lie on a grid on which every term
\* of a score is a whole percent. Units: soil_saturation, pm25 and co in tenths,
\* aqi in tenths, everything else in the unit of the source. bad: the fields of
\* the reading whose value is not a number (None, a string): arithmetic on them
\* raises TypeError inside predict's try.

Max(a, b) == IF a > b THEN a ELSE b

FloodFields ==
    {"water_level", "rainfall", "terrain_slope", "soil_saturation", "proximity_to_river"}
FireFields == {"temperature", "humidity", "wind_speed", "rainfall_last_24h"}
PollutionFields == {"pm25", "pm10", "no2", "o3", "co", "wind_speed"}

\* predict without its try/except: the error leaves the predictor
FloodPredictor_predict_unguarded(location_data) ==
    IF location_data.bad \cap FloodFields # {}
    THEN [risk_score |-> 0, status |-> "raised"]
    ELSE [risk_score |->
              (35 * Min(location_data.water_level, 3)) \div 3
            + (25 * Min(location_data.rainfall, 10)) \div 10
            + (20 * Max(0, 10 - location_data.terrain_slope)) \div 10
            + (15 * location_data.soil_saturation) \div 10
            + Max(0, 5 - location_data.proximity_to_river \div 1000),
          status |-> "ok"]

\* FloodPredictor.predict: the weighted sum of the five contributions, times
\* 100; min(x, 1.0) bounds water and rainfall from above only, max(0, x) bounds
\* terrain and proximity from below only, soil_saturation is not bounded, and
\* the sum is not clamped. Any exception gives the zero result of the except.
FloodPredictor_predict(location_data) ==
    IF location_data.bad \cap FloodFields # {}
    THEN [risk_score |-> 0, status |-> "error"]
    ELSE [risk_score |->
              (35 * Min(location_data.water_level, 3)) \div 3
            + (25 * Min(location_data.rainfall, 10)) \div 10
            + (20 * Max(0, 10 - location_data.terrain_slope)) \div 10
            + (15 * location_data.soil_saturation) \div 10
            + Max(0, 5 - location_data.proximity_to_river \div 1000),
          status |-> "ok"]

\* veg_multiplier, in tenths
VegMultiplier(vegetation_type) ==
    CASE vegetation_type = "grassland" -> 12
      [] vegetation_type = "shrubland" -> 13
      [] vegetation_type = "forest" -> 10
      [] vegetation_type = "urban" -> 5
      [] vegetation_type = "water" -> 0
      [] OTHER -> 10

\* FirePredictor.predict: the four contributions times the vegetation
\* multiplier, then min(risk_score, 1.0): clamped from above, not from below
\* (min(wind_speed / 30, 1.0) is negative for a negative wind speed)
FirePredictor_predict(location_data) ==
    IF location_data.bad \cap FireFields # {}
    THEN [risk_score |-> 0, status |-> "error"]
    ELSE LET temp_score == (35 * Max(0, location_data.temperature - 10)) \div 40
             humidity_score == (30 * Max(0, 100 - location_data.humidity)) \div 100
             wind_score == (25 * Min(location_data.wind_speed, 30)) \div 30
             rainfall_score == (10 * Max(0, 50 - location_data.rainfall_last_24h)) \div 50
             sum == temp_score + humidity_score + wind_score + rainfall_score
         IN [risk_score |->
                 Min((sum * VegMultiplier(location_data.vegetation_type)) \div 10, 100),
             status |-> "ok"]

\* the loop over the breakpoints (bp_lo, bp_hi, aqi_lo, aqi_hi): the linear
\* interpolation inside the first range holding x, 500 when none holds it
RECURSIVE AqiFrom(_, _, _)
AqiFrom(breakpoints, x, i) ==
    IF i > Len(breakpoints) THEN 5000
    ELSE LET bp == breakpoints[i]
         IN IF bp[1] <= x /\ x <= bp[2]
            THEN 10 * bp[3] + (10 * (x - bp[1]) * (bp[4] - bp[3])) \div (bp[2] - bp[1])
            ELSE AqiFrom(breakpoints, x, i + 1)

calculate_pm25_aqi(pm25) ==
    AqiFrom(<< <<0, 120, 0, 50>>, <<121, 354, 51, 100>>, <<355, 554, 101, 150>>,
               <<555, 1504, 151, 200>>, <<1505, 2504, 201, 300>>,
               <<2505, 5000, 301, 500>> >>, pm25, 1)

calculate_pm10_aqi(pm10) ==
    AqiFrom(<< <<0, 54, 0, 50>>, <<55, 154, 51, 100>>, <<155, 254, 101, 150>>,
               <<255, 354, 151, 200>>, <<355, 424, 201, 300>>,
               <<425, 604, 301, 500>> >>, pm10, 1)

calculate_no2_aqi(no2) ==
    AqiFrom(<< <<0, 53, 0, 50>>, <<54, 100, 51, 100>>, <<101, 360, 101, 150>>,
               <<361, 649, 151, 200>>, <<650, 1249, 201, 300>>,
               <<1250, 2049, 301, 500>> >>, no2, 1)

calculate_o3_aqi(o3) ==
    AqiFrom(<< <<0, 54, 0, 50>>, <<55, 70, 51, 100>>, <<71, 85, 101, 150>>,
               <<86, 105, 151, 200>>, <<106, 200, 201, 300>>,
               <<201, 604, 301, 500>> >>, o3, 1)

calculate_co_aqi(co) ==
    AqiFrom(<< <<0, 44, 0, 50>>, <<45, 94, 51, 100>>, <<95, 124, 101, 150>>,
               <<125, 154, 151, 200>>, <<155, 304, 201, 300>>,
               <<305, 504, 301, 500>> >>, co, 1)

\* PollutionPredictor.predict: the largest component times the wind factor
\* max(0.5, 1 - wind_speed / 20); the result holds "aqi" and no "risk_score",
\* the result of the except too
PollutionPredictor_predict(location_data) ==
    IF location_data.bad \cap PollutionFields # {}
    THEN [aqi |-> 0, aqi_category |-> "error"]
    ELSE LET aqi == Max(calculate_pm25_aqi(location_data.pm25),
                    Max(calculate_pm10_aqi(location_data.pm10),
                    Max(calculate_no2_aqi(location_data.no2),
                    Max(calculate_o3_aqi(location_data.o3),
                        calculate_co_aqi(location_data.co)))))
             wind_factor == Max(10, 20 - location_data.wind_speed)
         IN [aqi |-> (aqi * wind_factor) \div 20, aqi_category |-> "ok"]

\* a reading in which every contribution is zero
CalmReading ==
    [water_level |-> 0, rainfall |-> 0, terrain_slope |-> 10, soil_saturation |-> 0,
     proximity_to_river |-> 5000,
     temperature |-> 10, humidity |-> 100, wind_speed |-> 0, rainfall_last_24h |-> 50,
     vegetation_type |-> "forest",
     pm25 |-> 100, pm10 |-> 40, no2 |-> 30, o3 |-> 50, co |-> 10,
     bad |-> {}]

\* readings inside and outside the nominal ranges (water level below 0, slope
\* below 0, soil saturation above 1, wind speed below 0), and readings with
\* fields that are not numbers
Readings ==
    {[CalmReading EXCEPT !.water_level = w, !.rainfall = 10, !.terrain_slope = sl,
                         !.soil_saturation = sat] :
        w \in {-3, 3}, sl \in {-10, 10}, sat \in {0, 10, 20}}
    \cup
    {[CalmReading EXCEPT !.temperature = tc, !.humidity = 0, !.wind_speed = ws,
                         !.rainfall_last_24h = 0, !.vegetation_type = veg] :
        tc \in {10, 50}, ws \in {-30, 0, 30}, veg \in {"forest", "grassland"}}
    \cup
    {[CalmReading EXCEPT !.pm25 = pm, !.wind_speed = ws] :
        pm \in {100, 6000}, ws \in {-30, 0}}
    \cup
    {[CalmReading EXCEPT !.water_level = 3, !.rainfall = 10, !.terrain_slope = 0,
                         !.temperature = 50, !.humidity = 0, !.bad = b] :
        b \in {{"water_level"}, {"humidity"}, {"wind_speed"}, {"pm25"},
               {"soil_saturation", "temperature", "co"}}}

\* --------------------------------------------------------- broadcast hub

SensorUpdate == [type |-> "sensor_update"]
AlertMessage(a) == [type |-> "alert", data |-> a]

IdleSweep ==
    [active |-> FALSE, cur |-> 0, behind |-> FALSE, todo |-> {}, si_used |-> 0, mutated |-> FALSE,
     disconnected |-> {}, delivered |-> {}, snapshot |-> {}, message |-> SensorUpdate]

NoSweep ==
    [task |-> "none", outcome |-> "none", disconnected |-> {}, delivered |-> {},
     snapshot |-> {}, message |-> SensorUpdate]

Ended(t, s, outcome) ==
    [task |-> t, outcome |-> outcome, disconnected |-> s.disconnected,
     delivered |-> s.delivered, snapshot |-> s.snapshot, message |-> s.message]

\* a set iterator whose set was changed since its last next()
MarkMutated(sw) ==
    [t \in Publishers |-> IF sw[t].active THEN [sw[t] EXCEPT !.mutated = TRUE] ELSE sw[t]]

\* ------------------------------------------------------------ dispatcher

Channels == {"push_notification", "sms", "email", "webhook", "in_app"}

ChannelsFor_high_as_other(sev) ==
    IF sev = "critical"
    THEN <<"push_notification", "sms", "email", "webhook">>
    ELSE IF sev = "moderate"
    THEN <<"push_notification", "email">>
    ELSE <<"in_app">>

\* an else branch for low only: any other severity gets no channel
ChannelsFor_low_only(sev) ==
    IF sev \in {"critical", "high"}
    THEN <<"push_notification", "sms", "email", "webhook">>
    ELSE IF sev = "moderate"
    THEN <<"push_notification", "email">>
    ELSE IF sev = "low"
    THEN <<"in_app">>
    ELSE <<>>

ChannelsFor(sev) ==
    IF sev \in {"critical", "high"}
    THEN <<"push_notification", "sms", "email", "webhook">>
    ELSE IF sev = "moderate"
    THEN <<"push_notification", "email">>
    ELSE <<"in_app">>

\* an adapter: its body is one try whose except logs the error and returns
send_push_notification_raises(outcome) == IF outcome = "ok" THEN "sent" ELSE "raised"
send_sms_raises(outcome) == IF outcome = "ok" THEN "sent" ELSE "raised"

send_push_notification(outcome) == IF outcome = "ok" THEN "sent" ELSE "logged_error"
send_sms(outcome) == IF outcome = "ok" THEN "sent" ELSE "logged_error"
send_email(outcome) == IF outcome = "ok" THEN "sent" ELSE "logged_error"
send_webhook(outcome) == IF outcome = "ok" THEN "sent" ELSE "logged_error"
send_in_app_notification(outcome) == IF outcome = "ok" THEN "sent" ELSE "logged_error"

Adapter(ch, outcome) ==
    CASE ch = "push_notification" -> send_push_notification(outcome)
      [] ch = "sms" -> send_sms(outcome)
      [] ch = "email" -> send_email(outcome)
      [] ch = "webhook" -> send_webhook(outcome)
      [] OTHER -> send_in_app_notification(outcome)

\* the branch of send_alert for one severity: each adapter is awaited in turn and
\* its channel appended after it returned; an exception leaving an adapter ends
\* the branch. failing: the channels whose adapter meets an error.
\* the adapters started as tasks and not awaited: every channel is appended at
\* once, no attempt has completed when the branch is over
RunBranch_not_awaited(chans, failing, i, st) ==
    [st EXCEPT !.channels_sent = chans]

RECURSIVE RunBranch(_, _, _, _)
RunBranch(chans, failing, i, st) ==
    IF i > Len(chans) \/ st.raised THEN st
    ELSE LET ch == chans[i]
             res == Adapter(ch, IF ch \in failing THEN "error" ELSE "ok")
         IN RunBranch(chans, failing, i + 1,
                      IF res = "raised"
                      THEN [st EXCEPT !.log = Append(@, <<ch, res>>), !.raised = TRUE]
                      ELSE [st EXCEPT !.log = Append(@, <<ch, res>>),
                                      !.channels_sent = Append(@, ch)])

NoAlert == [id |-> 0, type |-> "none", severity |-> "none", status |-> "none",
            channels_sent |-> <<>>]

\* save_sensor_data / get_latest_sensor_data against the update being swept:
\* newer: data was saved after the update in flight was built; read: the
\* prediction iteration got that newer data; alerted: the subscribers that were
\* delivered an alert made from it while the update had not reached them;
\* saved: the readings of the collection loop's latest iteration were persisted
InSync == [newer |-> FALSE, read |-> FALSE, alerted |-> {}, saved |-> FALSE]

NoEvaluation == [called |-> FALSE, results |-> <<>>, alerts |-> <<>>]

NoDispatch == [alert |-> NoAlert, failing |-> {}, log |-> <<>>, result |-> "none"]

Put_nothing(store, a) == store

\* a suppression key: an alert of a hazard type and severity already stored is
\* dropped
Put_suppressed(store, a) ==
    IF \E i \in DOMAIN store : store[i].type = a.type /\ store[i].severity = a.severity
    THEN store
    ELSE [i \in DOMAIN store \cup {a.id} |-> IF i = a.id THEN a ELSE store[i]]

\* one channels_sent list shared by all alerts: storing an alert shows its
\* channels in every entry
Put_shared_channels(store, a) ==
    [i \in DOMAIN store \cup {a.id} |->
        IF i = a.id THEN a ELSE [store[i] EXCEPT !.channels_sent = a.channels_sent]]

\* self.alerts[alert["id"]] = alert
Put(store, a) ==
    [i \in DOMAIN store \cup {a.id} |-> IF i = a.id THEN a ELSE store[i]]

Init ==
    /\ connected_clients = {}
    /\ handler = [c \in Clients |-> "new"]
    /\ sweep = [t \in Publishers |-> IdleSweep]
    /\ pc = [t \in Publishers |-> IF t \in Tasks THEN lifespan[t] ELSE "idle"]
    /\ failures = [t \in Tasks |-> 0]
    /\ sleepFor = [t \in Tasks |-> 0]
    /\ nLocs = 0
    /\ locIdx = 0
    /\ alerts_triggered = <<>>
    /\ alerts = <<>>
    /\ nextId = 1
    /\ swept = NoSweep
    /\ dispatched = NoDispatch
    /\ evaluated = NoEvaluation
    /\ latest = InSync
    /\ iterated = NoIteration

\* ---------------------------------------------------- websocket handlers

\* a handler without its finally: nothing is removed when it exits
discard_skipped(registry, c) == [registry |-> registry, raised |-> FALSE]

\* set.remove in the place of set.discard: KeyError for an element not in the set
discard_as_remove(registry, c) == [registry |-> registry \ {c}, raised |-> c \notin registry]

\* connected_clients.discard(client): the set without the client, and whether
\* the call raised; set.discard raises nothing for an element not in the set
discard(registry, c) == [registry |-> registry \ {c}, raised |-> FALSE]

\* await websocket.accept(); connected_clients.add(websocket)
websocket_accept(c) ==
    /\ handler[c] = "new"
    /\ handler' = [handler EXCEPT ![c] = "serving"]
    /\ connected_clients' = connected_clients \cup {c}
    /\ sweep' = MarkMutated(sweep)
    /\ swept' = NoSweep
    /\ dispatched' = NoDispatch
    /\ evaluated' = NoEvaluation
    /\ UNCHANGED latest
    /\ iterated' = NoIteration
    /\ UNCHANGED <<pc, failures, sleepFor, nLocs, locIdx, alerts_triggered, alerts, nextId>>

\* the handler leaves its loop (send error, disconnect, cancellation):
\* finally: connected_clients.discard(websocket)
websocket_exit(c) ==
    /\ handler[c] = "serving"
    /\ LET left == discard(connected_clients, c)
       IN /\ handler' = [handler EXCEPT ![c] = IF left.raised THEN "failed" ELSE "closed"]
          /\ connected_clients' = left.registry
    /\ sweep' = IF c \in connected_clients THEN MarkMutated(sweep) ELSE sweep
    /\ swept' = NoSweep
    /\ dispatched' = NoDispatch
    /\ evaluated' = NoEvaluation
    /\ UNCHANGED latest
    /\ iterated' = NoIteration
    /\ UNCHANGED <<pc, failures, sleepFor, nLocs, locIdx, alerts_triggered, alerts, nextId>>

\* ------------------------------------------------- prediction loop control

\* for location_data in sensor_data: the next one, else asyncio.sleep(300)
PredNextLocation ==
    IF locIdx < nLocs
    THEN /\ pc' = [pc EXCEPT !["pred"] = "locate"]
         /\ locIdx' = locIdx + 1
         /\ alerts_triggered' = <<>>
         /\ iterated' = NoIteration
         /\ UNCHANGED <<failures, sleepFor, nLocs>>
    ELSE Sleep("pred")

\* for alert in alerts_triggered: the next one, else the next location
PredNextAlert ==
    IF Tail(alerts_triggered) # <<>>
    THEN /\ pc' = [pc EXCEPT !["pred"] = "send_alert"]
         /\ alerts_triggered' = Tail(alerts_triggered)
         /\ iterated' = NoIteration
         /\ UNCHANGED <<failures, sleepFor, nLocs, locIdx>>
    ELSE PredNextLocation

\* create_manual_alert is over: it returns its response, or its except turns
\* the error into HTTPException(500)
Respond ==
    /\ pc' = [pc EXCEPT !["manual"] = "idle"]
    /\ iterated' = NoIteration
    /\ UNCHANGED <<failures, sleepFor, nLocs, locIdx, alerts_triggered>>

\* broadcast_update returned to the task that awaited it
Return(t) ==
    IF t = "coll" THEN Sleep("coll") ELSE IF t = "pred" THEN PredNextAlert ELSE Respond

\* an exception reached the try of the task's while loop (of the request handler)
Raise(t) == IF t \in Tasks THEN Except(t) ELSE Respond

\* ------------------------------------------------------ broadcast_update

\* the other task is suspended in a send to the same websocket: the messages of
\* one websocket go out in the order of the send_json calls, so the send now
\* called is over only after that one
SendPending(t, c) == \E u \in Publishers \ {t} : sweep[u].active /\ sweep[u].cur = c

\* task t's send is over (or t starts a sweep): no other send waits behind it
Unblock(sw, t) ==
    [u \in Publishers |-> IF u # t THEN [sw[u] EXCEPT !.behind = FALSE] ELSE sw[u]]

Discards_from_snapshot(registry, s) == s.snapshot \ s.disconnected

\* for client in disconnected: connected_clients.discard(client)
Discards(registry, s) == registry \ s.disconnected

\* one of those discards raised, which ends the loop and broadcast_update
DiscardRaised(registry, s) == \E c \in s.disconnected : discard(registry, c).raised

\* broadcast_alert started as a task and not awaited: the prediction loop goes
\* on while the sweep runs
AwaitSend_as_task(t) == IF t = "pred" THEN PredNextAlert ELSE GoTo(t, "sweep")

\* the caller awaits broadcast_update, which awaits client.send_json: the task
\* stays in the sweep until the send is over
AwaitSend(t) == GoTo(t, "sweep")

\* next() of the iterator of "for client in connected_clients", then either the
\* send to the client it yields, or the end of the loop and the discards.
\* The set iterator raises RuntimeError when the set's size is not the one it was
\* created with; after a change that kept the size it goes on over the table as
\* it now is, so what it still yields is any part of the set.
IterNext(t, s) ==
    IF Cardinality(connected_clients) # s.si_used
    THEN /\ sweep' = Unblock([sweep EXCEPT ![t] = IdleSweep], t)
         /\ swept' = Ended(t, s, "raised")
         /\ UNCHANGED connected_clients
         /\ Raise(t)
    ELSE \E todo \in (IF s.mutated THEN SUBSET connected_clients ELSE {s.todo}) :
            IF todo = {}
            THEN LET left == Discards(connected_clients, s)
                     others == IF left # connected_clients THEN MarkMutated(sweep) ELSE sweep
                 IN IF DiscardRaised(connected_clients, s)
                    THEN \E done \in SUBSET (s.disconnected \cap connected_clients) :
                            /\ connected_clients' = connected_clients \ done
                            /\ sweep' = Unblock([(IF done # {} THEN MarkMutated(sweep)
                                                  ELSE sweep) EXCEPT ![t] = IdleSweep], t)
                            /\ swept' = Ended(t, s, "raised")
                            /\ Raise(t)
                    ELSE /\ connected_clients' = left
                         /\ sweep' = Unblock([others EXCEPT ![t] = IdleSweep], t)
                         /\ swept' = Ended(t, s, "returned")
                         /\ Return(t)
            ELSE \E c \in todo :
                    /\ sweep' = Unblock([sweep EXCEPT ![t] =
                                             [s EXCEPT !.cur = c, !.todo = todo \ {c},
                                                       !.mutated = FALSE,
                                                       !.behind = SendPending(t, c)]], t)
                    /\ swept' = NoSweep
                    /\ UNCHANGED connected_clients
                    /\ AwaitSend(t)

\* no "if connected_clients" guard and a use of the first client before the loop
broadcast_update_needs_client(t, message) ==
    IF connected_clients = {}
    THEN /\ swept' = [NoSweep EXCEPT !.task = t, !.outcome = "raised", !.message = message]
         /\ UNCHANGED <<connected_clients, sweep>>
         /\ Raise(t)
    ELSE IterNext(t, [IdleSweep EXCEPT !.active = TRUE, !.todo = connected_clients,
                                       !.si_used = Cardinality(connected_clients),
                                       !.snapshot = connected_clients,
                                       !.message = message])

\* broadcast_update(message) up to its first suspension
broadcast_update(t, message) ==
    IF connected_clients = {}
    THEN /\ swept' = [NoSweep EXCEPT !.task = t, !.outcome = "returned", !.message = message]
         /\ UNCHANGED <<connected_clients, sweep>>
         /\ Return(t)
    ELSE IterNext(t, [IdleSweep EXCEPT !.active = TRUE, !.todo = connected_clients,
                                       !.si_used = Cardinality(connected_clients),
                                       !.snapshot = connected_clients,
                                       !.message = message])

\* await client.send_json(message) is over: it returned, or it raised and the
\* client goes to disconnected; then the for statement goes on
send_json_done(t, ok) ==
    /\ pc[t] = "sweep"
    /\ ~sweep[t].behind
    /\ IterNext(t, IF ok THEN [sweep[t] EXCEPT !.delivered = @ \cup {sweep[t].cur}]
                         ELSE [sweep[t] EXCEPT !.disconnected = @ \cup {sweep[t].cur}])
    /\ latest' = IF t = "coll"
                 THEN (IF sweep'["coll"].active THEN latest
                       ELSE [InSync EXCEPT !.saved = latest.saved])
                 ELSE IF /\ t = "pred"
                         /\ ok /\ latest.read /\ sweep["pred"].message.type = "alert"
                         /\ sweep["pred"].cur \notin
                               sweep["coll"].delivered \cup {sweep["coll"].cur}
                      THEN [latest EXCEPT !.alerted = @ \cup {sweep["pred"].cur}]
                      ELSE latest
    /\ dispatched' = NoDispatch
    /\ evaluated' = NoEvaluation
    /\ UNCHANGED <<handler, alerts, nextId>>

\* asyncio.sleep returns: while True goes round
Wake(t) ==
    /\ pc[t] = "sleep"
    /\ pc' = [pc EXCEPT ![t] = "start"]
    /\ sleepFor' = [sleepFor EXCEPT ![t] = 0]
    /\ swept' = NoSweep
    /\ dispatched' = NoDispatch
    /\ evaluated' = NoEvaluation
    /\ UNCHANGED latest
    /\ iterated' = NoIteration
    /\ UNCHANGED <<connected_clients, handler, sweep, failures, nLocs, locIdx,
                   alerts_triggered, alerts, nextId>>

\* POST /api/v1/sensors/ingest: validate_and_process, save_sensor_data; the
\* saved data is not broadcast. It is newer than an update still being swept
ingest_sensor_data ==
    /\ latest' = [latest EXCEPT !.newer = @ \/ sweep["coll"].active]
    /\ swept' = NoSweep
    /\ dispatched' = NoDispatch
    /\ evaluated' = NoEvaluation
    /\ iterated' = NoIteration
    /\ UNCHANGED <<connected_clients, handler, sweep, pc, failures, sleepFor, nLocs,
                   locIdx, alerts_triggered, alerts, nextId>>

\* --------------------------------------------- background_data_collection

\* how the statements before the broadcast end: all returned, one of the
\* fetches or simulate_iot_data raised, or save_sensor_data raised
CollectionOutcomes == {"ok", "fetch_raised", "save_raised"}

\* save_sensor_data(all_data): the readings are persisted, or the call raises
save_sensor_data(outcome) == IF outcome = "save_raised" THEN "raised" ELSE "saved"

\* the broadcast placed before save_sensor_data: it is reached whenever the
\* fetches returned
ReachesBroadcast_before_save(outcome) == outcome # "fetch_raised"

\* the statements of the try run in order: the broadcast is reached when the
\* fetches returned and save_sensor_data returned after them
ReachesBroadcast(outcome) ==
    outcome # "fetch_raised" /\ save_sensor_data(outcome) = "saved"

\* top of the while: the three fetches, simulate_iot_data, save_sensor_data
\* (any of them may raise), then broadcast_update up to its first suspension
background_data_collection(outcome) ==
    /\ pc["coll"] = "start"
    /\ IF ReachesBroadcast(outcome)
       THEN broadcast_update("coll", SensorUpdate)
       ELSE /\ Raise("coll")
            /\ swept' = NoSweep
            /\ UNCHANGED <<connected_clients, sweep>>
    /\ latest' = [InSync EXCEPT !.saved =
                      outcome # "fetch_raised" /\ save_sensor_data(outcome) = "saved"]
    /\ dispatched' = NoDispatch
    /\ evaluated' = NoEvaluation
    /\ UNCHANGED <<handler, alerts, nextId>>

\* ----------------------------------------------- background_prediction_loop

\* top of the while: sensor_data = get_latest_sensor_data(), which may raise;
\* an empty result skips the for loop
background_prediction_loop(fetched, n) ==
    /\ pc["pred"] = "start"
    /\ IF fetched
       THEN IF n = 0
            THEN Sleep("pred")
            ELSE /\ pc' = [pc EXCEPT !["pred"] = "locate"]
                 /\ nLocs' = n
                 /\ locIdx' = 1
                 /\ iterated' = NoIteration
                 /\ UNCHANGED <<failures, sleepFor, alerts_triggered>>
       ELSE Raise("pred")
    /\ swept' = NoSweep
    /\ dispatched' = NoDispatch
    /\ evaluated' = NoEvaluation
    /\ latest' = IF fetched THEN [latest EXCEPT !.read = latest.newer] ELSE latest
    /\ UNCHANGED <<connected_clients, handler, sweep, alerts, nextId>>

\* one location_data: the three predict calls (they return, never raise) and
\* alert_rules.evaluate
predict_and_evaluate(results) ==
    /\ pc["pred"] = "locate"
    /\ (nextId - 1) + Len(evaluate(results)) <= MaxAlerts
    /\ IF evaluate(results) = <<>>
       THEN PredNextLocation
       ELSE /\ alerts_triggered' = evaluate(results)
            /\ pc' = [pc EXCEPT !["pred"] = "send_alert"]
            /\ iterated' = NoIteration
            /\ UNCHANGED <<failures, sleepFor, nLocs, locIdx>>
    /\ evaluated' = [called |-> TRUE, results |-> results, alerts |-> evaluate(results)]
    /\ UNCHANGED latest
    /\ swept' = NoSweep
    /\ dispatched' = NoDispatch
    /\ UNCHANGED <<connected_clients, handler, sweep, alerts, nextId>>

\* a predictor's error left predict
Raised(results) ==
    \E h \in {"flood", "fire", "pollution"} :
        "status" \in DOMAIN results[h] /\ results[h].status = "raised"

\* one location_data: the three predictors on the reading, then
\* alert_rules.evaluate(location_data, flood_risk, fire_risk, pollution_risk);
\* an exception leaving a predictor reaches the loop's except
predict_location_data(location_data) ==
    LET results == [flood |-> FloodPredictor_predict(location_data),
                    fire |-> FirePredictor_predict(location_data),
                    pollution |-> PollutionPredictor_predict(location_data),
                    location_data |-> location_data]
    IN IF Raised(results)
       THEN /\ pc["pred"] = "locate"
            /\ Raise("pred")
            /\ evaluated' = NoEvaluation
            /\ swept' = NoSweep
            /\ dispatched' = NoDispatch
            /\ UNCHANGED <<connected_clients, handler, sweep, alerts, nextId, latest>>
       ELSE predict_and_evaluate(results)

\* the alert_data send_alert may be called with: every severity of the bands, a
\* severity that is none of them, and no severity at all
AlertData ==
    {[type |-> "fire", severity |-> sev] : sev \in {"critical", "high", "moderate", "low", "extreme"}}
    \cup {[type |-> "fire"]}

\* for alert in alerts_triggered, with one alert of any content: the loop calls
\* send_alert with whatever dict the evaluator returned
triggered(alert_data) ==
    /\ pc["pred"] = "locate"
    /\ (nextId - 1) + 1 <= MaxAlerts
    /\ alerts_triggered' = <<alert_data>>
    /\ pc' = [pc EXCEPT !["pred"] = "send_alert"]
    /\ iterated' = NoIteration
    /\ evaluated' = [called |-> TRUE, results |-> <<>>, alerts |-> <<alert_data>>]
    /\ swept' = NoSweep
    /\ dispatched' = NoDispatch
    /\ UNCHANGED <<connected_clients, handler, sweep, failures, sleepFor, nLocs, locIdx,
                   alerts, nextId, latest>>

\* ------------------------------------------------- AlertEngine.send_alert

\* an id taken from the clock's second: two alerts of one second share it
uuid4_colliding(issued) == 1

\* str(uuid.uuid4()): a random 122-bit id, taken as one no earlier call returned;
\* issued: the number of this call
uuid4(issued) == issued

\* await alert_engine.send_alert(alert): the adapters hold no await that
\* suspends, so the call runs to its return (or its raise) in one step
send_alert(failing) ==
    /\ pc["pred"] = "send_alert"
    /\ LET alert_data == Head(alerts_triggered)
           created == [id |-> uuid4(nextId),
                       type |-> alert_data.type,
                       severity |-> IF "severity" \in DOMAIN alert_data
                                    THEN alert_data.severity ELSE "moderate",
                       status |-> "active",
                       channels_sent |-> <<>>]
           chans == ChannelsFor(created.severity)
           st == RunBranch(chans, failing, 1,
                           [channels_sent |-> <<>>, log |-> <<>>, raised |-> FALSE])
           sent == [created EXCEPT !.channels_sent = st.channels_sent]
       IN /\ failing \subseteq Range(chans)
          /\ IF st.raised
             THEN /\ dispatched' = [alert |-> sent, failing |-> failing, log |-> st.log,
                                  result |-> "raised"]
                  /\ Raise("pred")
                  /\ UNCHANGED alerts
             ELSE /\ dispatched' = [alert |-> sent, failing |-> failing, log |-> st.log,
                                  result |-> "returned"]
                  /\ alerts' = Put(alerts, sent)
                  /\ GoTo("pred", "broadcast")
    /\ nextId' = nextId + 1
    /\ evaluated' = NoEvaluation
    /\ UNCHANGED latest
    /\ swept' = NoSweep
    /\ UNCHANGED <<connected_clients, handler, sweep>>

StoreAtAwait_stored_first(store, a) == Put(store, a)

\* the store while send_alert awaits an adapter: self.alerts[id] = alert comes
\* after the last adapter, so the alert being sent is not in it yet
StoreAtAwait(store, a) == store

RegistryAtCancel_swallowed(registry, s) == registry \ {s.cur}

\* the registry when a sweep is cancelled in a send: the discards come after the
\* for loop, so none has run
RegistryAtCancel(registry, s) == registry

\* the adapters that may suspend on I/O: the ones whose body is not in the
\* source (the push and sms adapters there hold no await at all)
Blocking == {"email", "webhook", "in_app"}

\* send_alert awaits an adapter that never responds: the await is bare (no
\* asyncio.wait_for), so the call, and the prediction loop in it, stay there
adapter_never_responds(ch) ==
    /\ pc["pred"] = "send_alert"
    /\ LET alert_data == Head(alerts_triggered)
           sev == IF "severity" \in DOMAIN alert_data THEN alert_data.severity ELSE "moderate"
           chans == ChannelsFor(sev)
           before == CHOOSE i \in DOMAIN chans : chans[i] = ch
           pending == [id |-> uuid4(nextId), type |-> alert_data.type, severity |-> sev,
                       status |-> "active", channels_sent |-> SubSeq(chans, 1, before - 1)]
       IN /\ ch \in Range(chans) \cap Blocking
          /\ alerts' = StoreAtAwait(alerts, pending)
    /\ nextId' = nextId + 1
    /\ GoTo("pred", "adapter")
    /\ swept' = NoSweep
    /\ dispatched' = NoDispatch
    /\ evaluated' = NoEvaluation
    /\ UNCHANGED latest
    /\ UNCHANGED <<connected_clients, handler, sweep>>

\* the awaits at which a task is suspended: asyncio delivers a cancellation there
Suspended(t) ==
    \/ pc[t] \in {"sweep", "sleep", "adapter"}
    \/ t = "coll" /\ pc[t] = "start"        \* the fetch awaits

\* task.cancel(): CancelledError is raised at the await. It is a BaseException:
\* no "except Exception" of broadcast_update, send_alert or the loops catches
\* it and none of them has a finally, so the task ends there and then
Cancel(t) ==
    /\ Suspended(t)
    /\ pc' = [pc EXCEPT ![t] = "cancelled"]
    /\ sweep' = Unblock([sweep EXCEPT ![t] = IdleSweep], t)
    /\ swept' = IF sweep[t].active THEN Ended(t, sweep[t], "cancelled") ELSE NoSweep
    /\ connected_clients' = RegistryAtCancel(connected_clients, sweep[t])
    /\ dispatched' = NoDispatch
    /\ evaluated' = NoEvaluation
    /\ latest' = IF t = "coll" THEN [InSync EXCEPT !.saved = latest.saved] ELSE latest
    /\ iterated' = NoIteration
    /\ UNCHANGED <<handler, failures, sleepFor, nLocs, locIdx, alerts_triggered,
                   alerts, nextId>>

\* await broadcast_alert(alert): alert is the loop variable, the evaluator's
\* output, not what send_alert returned
broadcast_alert ==
    /\ pc["pred"] = "broadcast"
    /\ broadcast_update("pred", AlertMessage(Head(alerts_triggered)))
    /\ dispatched' = NoDispatch
    /\ evaluated' = NoEvaluation
    /\ UNCHANGED latest
    /\ UNCHANGED <<handler, alerts, nextId>>

\* ------------------------------------------------------ create_manual_alert

\* the bodies POSTed to /api/v1/alerts/manual
ManualAlerts ==
    { [type |-> "other", severity |-> "critical"],
      [type |-> "other", severity |-> "low"],
      [type |-> "flood", severity |-> "moderate"] }

\* alert_engine.create_alert(alert_data): called without await, so it is a plain
\* method and returns before any of the async channel adapters can have been
\* awaited: the alert as created, no channel attempted
create_alert(alert_data, issued) ==
    [id |-> uuid4(issued), type |-> alert_data.type, severity |-> alert_data.severity,
     status |-> "active", channels_sent |-> <<>>]

\* POST /api/v1/alerts/manual: create_alert, then broadcast_alert up to its
\* first suspension. stored: create_alert files the alert in self.alerts
create_manual_alert(alert_data, stored) ==
    /\ pc["manual"] = "idle"
    /\ nextId - 1 < MaxAlerts
    /\ LET alert == create_alert(alert_data, nextId)
       IN /\ dispatched' = [alert |-> alert, failing |-> {}, log |-> <<>>,
                            result |-> "created"]
          /\ alerts' = IF stored THEN Put(alerts, alert) ELSE alerts
          /\ nextId' = nextId + 1
          /\ broadcast_update("manual", AlertMessage(alert))
    /\ evaluated' = NoEvaluation
    /\ UNCHANGED <<handler, latest>>

\* ---------------------------------------------------------- specification

\* the two loops, the websocket handlers and the shutdown; the ingest endpoint
\* touches none of their state (it only saves a reading) and joins in OrderSpec
Next ==
    \/ \E c \in Clients : websocket_accept(c)
    \/ \E c \in Clients : websocket_exit(c)
    \/ \E outcome \in CollectionOutcomes : background_data_collection(outcome)
    \/ \E fetched \in BOOLEAN, n \in 0..MaxLocations : background_prediction_loop(fetched, n)
    \/ \E results \in HazardResults : predict_and_evaluate(results)
    \/ \E failing \in SUBSET Channels : send_alert(failing)
    \/ \E ch \in Channels : adapter_never_responds(ch)
    \/ broadcast_alert
    \/ \E t \in Tasks, ok \in BOOLEAN : send_json_done(t, ok)
    \/ \E t \in Tasks : Wake(t)
    \/ \E t \in Tasks : Cancel(t)

Spec == Init /\ [][Next]_vars

\* the dispatcher alone: the prediction loop with no websocket ever connected
NextDispatch ==
    \/ \E fetched \in BOOLEAN, n \in 0..MaxLocations : background_prediction_loop(fetched, n)
    \/ \E results \in HazardResults : predict_and_evaluate(results)
    \/ \E failing \in SUBSET Channels : send_alert(failing)
    \/ \E ch \in Channels : adapter_never_responds(ch)
    \/ broadcast_alert
    \/ Wake("pred")

DispatchSpec == Init /\ [][NextDispatch]_vars

\* DispatchSpec in which every step of the prediction task that can run does run
DispatchLiveSpec == DispatchSpec /\ WF_vars(NextDispatch)

\* the two loops and the websocket handlers, with readings that trigger no alert
QuietResults == {r \in HazardResults : evaluate(r) = <<>>}

NextSched ==
    \/ \E c \in Clients : websocket_accept(c)
    \/ \E c \in Clients : websocket_exit(c)
    \/ \E outcome \in CollectionOutcomes : background_data_collection(outcome)
    \/ \E fetched \in BOOLEAN, n \in 0..MaxLocations : background_prediction_loop(fetched, n)
    \/ \E results \in QuietResults : predict_and_evaluate(results)
    \/ \E ok \in BOOLEAN : send_json_done("coll", ok)
    \/ \E t \in Tasks : Wake(t)

SchedSpec == Init /\ [][NextSched]_vars

\* readings that trigger nothing, and readings that trigger one critical alert
AlertResults == {r \in HazardResults : r.flood.risk_score = 10}

\* the prediction loop with live subscribers: alerts are dispatched and broadcast
\* while websocket handlers come and go; the collection loop is left out
NextAlert ==
    \/ \E c \in Clients : websocket_accept(c)
    \/ \E c \in Clients : websocket_exit(c)
    \/ \E fetched \in BOOLEAN, n \in 0..MaxLocations : background_prediction_loop(fetched, n)
    \/ \E results \in AlertResults : predict_and_evaluate(results)
    \/ \E failing \in SUBSET Channels : send_alert(failing)
    \/ \E ch \in Channels : adapter_never_responds(ch)
    \/ broadcast_alert
    \/ \E ok \in BOOLEAN : send_json_done("pred", ok)
    \/ Wake("pred")

AlertSpec == Init /\ [][NextAlert]_vars

\* the evaluator on the band boundaries: the prediction loop of DispatchSpec fed
\* with risk scores on and next to every boundary of the severity bands
BandScores == {0, 19, 20, 39, 40, 59, 60, 79, 80, 100}

BandResults ==
    {[flood |-> Score(a), fire |-> Score(b), pollution |-> NoScore] :
        a \in {0, 80}, b \in BandScores}

NextEvaluate ==
    \/ \E fetched \in BOOLEAN, n \in 0..MaxLocations : background_prediction_loop(fetched, n)
    \/ \E results \in BandResults : predict_and_evaluate(results)
    \/ \E failing \in {{}, {"push_notification"}} : send_alert(failing)
    \/ \E ch \in Channels : adapter_never_responds(ch)
    \/ broadcast_alert
    \/ Wake("pred")

EvaluateSpec == Init /\ [][NextEvaluate]_vars

\* the steps of each loop's task: what the event loop runs when the task's
\* awaited fetch, send or sleep completes
CollectionCycle ==
    \/ \E outcome \in CollectionOutcomes : background_data_collection(outcome)
    \/ \E ok \in BOOLEAN : send_json_done("coll", ok)
    \/ Wake("coll")

PredictionCycle ==
    \/ \E fetched \in BOOLEAN, n \in 0..MaxLocations : background_prediction_loop(fetched, n)
    \/ \E results \in QuietResults : predict_and_evaluate(results)
    \/ Wake("pred")

\* AlertSpec with cancellation of the loops' tasks (a handler's cancellation is
\* websocket_exit: its finally runs)
NextCancel ==
    \/ NextAlert
    \/ \E t \in Tasks : Cancel(t)

CancelSpec == Init /\ [][NextCancel]_vars

\* both loops, the handlers and the ingest endpoint, every reading triggering
\* one alert and every adapter answering
NextOrder ==
    \/ \E c \in Clients : websocket_accept(c)
    \/ \E c \in Clients : websocket_exit(c)
    \/ background_data_collection("ok")
    \/ ingest_sensor_data
    \/ \E n \in 0..MaxLocations : background_prediction_loop(TRUE, n)
    \/ \E results \in HazardResults \ QuietResults : predict_and_evaluate(results)
    \/ send_alert({})
    \/ broadcast_alert
    \/ \E t \in Tasks, ok \in BOOLEAN : send_json_done(t, ok)
    \/ \E t \in Tasks : Wake(t)

OrderSpec == Init /\ [][NextOrder]_vars

\* both loops while no websocket is connected: every publish finds the registry
\* empty
NextNoClient ==
    \/ \E outcome \in CollectionOutcomes : background_data_collection(outcome)
    \/ \E fetched \in BOOLEAN, n \in 0..MaxLocations : background_prediction_loop(fetched, n)
    \/ \E results \in HazardResults : predict_and_evaluate(results)
    \/ \E failing \in SUBSET Channels : send_alert(failing)
    \/ broadcast_alert
    \/ \E t \in Tasks : Wake(t)

NoClientSpec == Init /\ [][NextNoClient]_vars

\* manual alerts submitted while websocket handlers come and go
NextManual ==
    \/ \E c \in Clients : websocket_accept(c)
    \/ \E c \in Clients : websocket_exit(c)
    \/ \E alert_data \in ManualAlerts, stored \in BOOLEAN :
          create_manual_alert(alert_data, stored)
    \/ \E ok \in BOOLEAN : send_json_done("manual", ok)

ManualSpec == Init /\ [][NextManual]_vars

\* the prediction loop fed with readings: the predictors compute the hazard
\* results the evaluator gets
NextPredict ==
    \/ \E fetched \in BOOLEAN, n \in 0..MaxLocations : background_prediction_loop(fetched, n)
    \/ \E location_data \in Readings : predict_location_data(location_data)
    \/ send_alert({})
    \/ broadcast_alert
    \/ Wake("pred")

PredictSpec == Init /\ [][NextPredict]_vars

\* the dispatcher called with alert data of any severity, or of none
NextSeverity ==
    \/ \E fetched \in BOOLEAN, n \in 0..MaxLocations : background_prediction_loop(fetched, n)
    \/ \E alert_data \in AlertData : triggered(alert_data)
    \/ \E failing \in SUBSET Channels : send_alert(failing)
    \/ broadcast_alert
    \/ Wake("pred")

SeveritySpec == Init /\ [][NextSeverity]_vars

\* SchedSpec with the progress the event loop itself guarantees: a sleep that
\* is over wakes its task, and a task that is not suspended runs on. When an
\* awaited client.send_json returns is up to the peer: the code puts no timeout
\* on it, so nothing makes send_json_done happen.
StallSpec ==
    /\ Init /\ [][NextSched]_vars
    /\ WF_vars(Wake("coll"))
    /\ WF_vars(Wake("pred"))
    /\ WF_vars(\E outcome \in CollectionOutcomes : background_data_collection(outcome))
    /\ WF_vars(PredictionCycle)

\* ------------------------------------------------------------------ claims

\* C1: a publish sweep iterates a snapshot of the registry: when a handler
\* registers or unregisters a subscriber while the sweep is suspended in a send,
\* the sweep does not fail and still attempts a send to every subscriber of the
\* snapshot taken at its start that is still registered.
C1_SweepIteratesSnapshot ==
    swept.task # "none" =>
        /\ swept.outcome = "returned"
        /\ (swept.snapshot \cap connected_clients) \subseteq swept.delivered

\* C2: a sweep ends with every subscriber whose send failed absent from the
\* registry and with every other subscriber registered at its start having
\* received the envelope.
C2_FailedRemovedOthersServed ==
    swept.task # "none" =>
        /\ swept.disconnected \cap connected_clients = {}
        /\ ((swept.snapshot \cap connected_clients) \ swept.disconnected)
               \subseteq swept.delivered

\* the channel set of the dispatcher's table, by severity
SelectedSet(sev) ==
    IF sev \in {"critical", "high"} THEN {"push_notification", "sms", "email", "webhook"}
    ELSE IF sev = "moderate" THEN {"push_notification", "email"}
    ELSE {"in_app"}

Invoked(log) == {log[i][1] : i \in DOMAIN log}

\* C3: send_alert never raises to its caller: whatever adapters fail, it returns
\* the alert, stored, with channels_sent holding one entry per adapter called.
C3_DispatchNeverRaises ==
    dispatched.result # "none" =>
        /\ dispatched.result = "returned"
        /\ dispatched.alert.channels_sent # <<>>
        /\ Len(dispatched.alert.channels_sent) = Len(dispatched.log)
        /\ dispatched.alert.id \in DOMAIN alerts
        /\ alerts[dispatched.alert.id] = dispatched.alert

\* a dispatch of a critical alert in which every adapter failed has returned
C3_Witness ==
    /\ dispatched.result = "returned"
    /\ dispatched.alert.severity = "critical"
    /\ dispatched.failing = {"push_notification", "sms", "email", "webhook"}

\* C4: if exactly one adapter fails and the others succeed, the returned alert's
\* succeeded channels (channels_sent, its only channel field) are the attempted
\* channels minus the failed one.
C4_SucceededExcludesFailed ==
    (dispatched.result = "returned" /\ Cardinality(dispatched.failing) = 1) =>
        Range(dispatched.alert.channels_sent) = Invoked(dispatched.log) \ dispatched.failing

\* C5: the channels attempted depend on the severity alone: critical or high
\* gives push, sms, email, webhook; moderate gives push, email; low gives in-app.
C5_ChannelsBySeverity ==
    dispatched.result # "none" =>
        /\ dispatched.alert.severity \in {"critical", "high", "moderate", "low"}
        /\ Invoked(dispatched.log) = SelectedSet(dispatched.alert.severity)
        /\ Range(dispatched.alert.channels_sent) = SelectedSet(dispatched.alert.severity)

\* a high alert was dispatched with a failing adapter
C5_Witness ==
    /\ dispatched.result = "returned"
    /\ dispatched.alert.severity = "high"
    /\ dispatched.failing = {"sms"}

\* C6: in one dispatch every adapter of the selected set is invoked exactly once
\* whatever the other adapters' outcome, and each failure is recorded (logged).
C6_EveryAdapterInvokedOnce ==
    dispatched.result # "none" =>
        \A ch \in SelectedSet(dispatched.alert.severity) :
            /\ Cardinality({i \in DOMAIN dispatched.log : dispatched.log[i][1] = ch}) = 1
            /\ \A i \in DOMAIN dispatched.log :
                  dispatched.log[i][1] = ch =>
                      dispatched.log[i][2] = (IF ch \in dispatched.failing
                                              THEN "logged_error" ELSE "sent")

\* the first adapter failed and the three after it were still invoked
C6_Witness ==
    /\ dispatched.result = "returned"
    /\ Len(dispatched.log) = 4
    /\ dispatched.log[1] = <<"push_notification", "logged_error">>
    /\ dispatched.log[4] = <<"webhook", "sent">>

\* C7: an error thrown while the prediction loop processes one location does not
\* stop the later locations of the same iteration from being processed: every
\* iteration ends at the last location.
C7_LaterLocationsStillProcessed ==
    iterated.task = "pred" => iterated.locIdx = iterated.nLocs

\* C8: an error in an iteration of either loop is caught; the loop then sleeps
\* its fixed interval (60 / 300), once, and starts another iteration, however
\* many iterations failed in a row.
C8_FixedIntervalRetry ==
    /\ [](\A t \in Tasks :
            /\ pc[t] \in {"start", "locate", "send_alert", "adapter", "broadcast",
                         "sweep", "sleep", "cancelled"}
            /\ pc[t] = "sleep" => sleepFor[t] = Interval(t)
            /\ (iterated.task = t /\ iterated.raised) => pc[t] = "sleep")
    /\ [][\A t \in Tasks : (pc[t] = "sleep" /\ pc'[t] # "sleep") => pc'[t] = "start"]_vars

\* both loops sleep after at least two failed iterations in a row
C8_Witness ==
    /\ pc["coll"] = "sleep" /\ failures["coll"] >= 2
    /\ pc["pred"] = "sleep" /\ failures["pred"] >= 2
    /\ iterated.raised

\* C10: one hazard result of score 85 gives one critical alert, dispatched on
\* push, sms, email, webhook, stored once under its id, and delivered to every
\* subscriber registered over the sweep.
C10_EndToEnd ==
    (/\ swept.task = "pred"
     /\ swept.message.type = "alert"
     /\ swept.message.data.severity = "critical") =>
        /\ (nextId - 1) \in DOMAIN alerts
        /\ alerts[nextId - 1].severity = "critical"
        /\ Range(alerts[nextId - 1].channels_sent)
              = {"push_notification", "sms", "email", "webhook"}
        /\ Cardinality({i \in DOMAIN alerts : alerts[i].id = nextId - 1}) = 1
        /\ (swept.snapshot \cap connected_clients) \subseteq swept.delivered

C11_FailedDispatchStoredAndBroadcast ==
    [][(dispatched.result # "none" /\ dispatched.failing # {} /\ pc'["pred"] # pc["pred"]) =>
          /\ dispatched.result = "returned"
          /\ dispatched.alert.id \in DOMAIN alerts
          /\ alerts[dispatched.alert.id] = dispatched.alert
          /\ alerts' = alerts
          /\ pc["pred"] = "broadcast"
          /\ Head(alerts_triggered).type = dispatched.alert.type
          /\ Head(alerts_triggered).severity = dispatched.alert.severity
          /\ IF connected_clients = {}
             THEN swept' = [NoSweep EXCEPT !.task = "pred", !.outcome = "returned",
                                           !.message = AlertMessage(Head(alerts_triggered))]
             ELSE /\ sweep'["pred"].active
                  /\ sweep'["pred"].message = AlertMessage(Head(alerts_triggered))
                  /\ sweep'["pred"].snapshot = connected_clients
                  /\ sweep'["pred"].cur \in connected_clients]_vars

\* a critical alert that failed on all four channels is stored and about to be
\* broadcast to two subscribers
C11_Witness ==
    /\ dispatched.result = "returned"
    /\ dispatched.failing = {"push_notification", "sms", "email", "webhook"}
    /\ alerts[dispatched.alert.id] = dispatched.alert
    /\ pc["pred"] = "broadcast"
    /\ Cardinality(connected_clients) = 2

\* the severity band of a risk score, as the table of bands gives it
BandOf(s) ==
    CASE s >= 80 -> "critical"
      [] s >= 60 /\ s < 80 -> "high"
      [] s >= 40 /\ s < 60 -> "moderate"
      [] s >= 20 /\ s < 40 -> "low"
      [] s < 20 -> "none"

AlertsOfType(as, h) == {i \in DOMAIN as : as[i].type = h}

\* C12: severity is a total, deterministic function of the risk score: 80 and
\* above critical, 60..79 high, 40..59 moderate, 20..39 low, below 20 no alert,
\* the boundaries 80, 60, 40, 20 going to the higher band: every evaluation
\* returns, for each hazard with a score, no alert below 20 and otherwise
\* exactly one alert of the band's severity.
C12_SeverityBands ==
    evaluated.called =>
        \A h \in {"flood", "fire"} :
            LET s == evaluated.results[h].risk_score
                mine == AlertsOfType(evaluated.alerts, h)
            IN IF BandOf(s) = "none"
               THEN mine = {}
               ELSE /\ Cardinality(mine) = 1
                    /\ \A i \in mine : evaluated.alerts[i].severity = BandOf(s)

\* a score of exactly 60 was evaluated next to one of exactly 80
C12_Witness ==
    /\ evaluated.called
    /\ evaluated.results["fire"].risk_score = 60
    /\ evaluated.results["flood"].risk_score = 80
    /\ Len(evaluated.alerts) = 2

Serving == {c \in Clients : handler[c] = "serving"}

C14_DoubleRemovalIsNoOp ==
    \A c \in Clients :
        (swept.task # "none" /\ c \in swept.disconnected /\ handler[c] = "closed") =>
            /\ swept.outcome = "returned"
            /\ c \notin connected_clients

\* C15: one slow subscriber cannot stall a sweep: every send is bounded by a
\* timeout, so a sweep suspended in a send eventually goes on and finishes even
\* if that send never completes.
C15_SweepNeverStalls ==
    \A t \in Tasks : [](pc[t] = "sweep" => <>(pc[t] # "sweep"))

\* C16: dispatch terminates for every alert even when a channel adapter never
\* responds: the attempt is cut off by a timeout, so the prediction loop never
\* stays for ever in one adapter call.
C16_DispatchTerminates ==
    [](pc["pred"] \in {"send_alert", "adapter"} =>
          <>(pc["pred"] \notin {"send_alert", "adapter"}))

\* C17: cancelling a loop or a handler at an await never leaves the registry or
\* the store partially mutated: the step that cancels a loop leaves the store as
\* it is and the registry either as it is or with the sweep's removals all
\* applied; every alert in the store is a complete one; a handler that has ended
\* is not in the registry.
C17_CancellationAtomic ==
    /\ [](/\ connected_clients \subseteq Serving
          /\ \A i \in DOMAIN alerts :
                /\ alerts[i].id = i
                /\ alerts[i].channels_sent = ChannelsFor(alerts[i].severity))
    /\ [][\A t \in Tasks :
            (pc[t] # "cancelled" /\ pc'[t] = "cancelled") =>
                /\ alerts' = alerts
                /\ connected_clients' \in {connected_clients,
                                           connected_clients \ sweep[t].disconnected}]_vars

\* the prediction loop was cancelled in a send of an alert's sweep, after
\* another subscriber's send had failed
C17_Witness ==
    /\ pc["pred"] = "cancelled"
    /\ swept.task = "pred"
    /\ swept.outcome = "cancelled"
    /\ swept.disconnected # {}
    /\ alerts # <<>>

\* what the step delivers of the collection loop's update
UpdateDelivered ==
    (IF sweep'["coll"].active THEN sweep'["coll"].delivered
     ELSE IF swept'.task = "coll" THEN swept'.delivered
     ELSE sweep["coll"].delivered) \ sweep["coll"].delivered

\* C18: a data update is delivered to a subscriber before any alert generated
\* from data observed after that update: no step delivers the update to a
\* subscriber that already got an alert made from newer data.
C18_UpdateBeforeLaterAlert ==
    [][pc["coll"] = "sweep" => UpdateDelivered \cap latest.alerted = {}]_vars

\* C19: unregister is idempotent. A discard of a subscriber that is no longer in
\* the registry (its handler already discarded it and the sweep discards it
\* again, or the sweep removed it and the handler's finally discards it again)
\* raises nothing and leaves the registry as it was: the handler ends normally
\* with the registry unchanged, and the sweep that got through its loop returns
\* with the registry less the failed subscribers that were still in it.
C19_UnregisterIdempotent ==
    [][/\ \A c \in Clients :
            (handler[c] = "serving" /\ handler'[c] # "serving" /\ c \notin connected_clients)
                => (handler'[c] = "closed" /\ connected_clients' = connected_clients)
       /\ \A t \in Tasks :
            (/\ sweep[t].active /\ swept'.task = t /\ swept'.outcome # "cancelled"
             /\ Cardinality(connected_clients) = sweep[t].si_used
             /\ ~(swept'.disconnected \subseteq connected_clients))
                => (/\ swept'.outcome = "returned"
                    /\ connected_clients' = connected_clients \ swept'.disconnected)]_vars

\* a sweep returned after discarding a subscriber whose handler had discarded it
C19_Witness ==
    /\ swept.outcome = "returned"
    /\ \E c \in swept.disconnected : handler[c] = "closed"

\* C21: a publish with an empty registry is a no-op. The step in which a loop
\* calls broadcast_alert or broadcast_update while the registry is empty ends
\* the call at once: it returns, nothing was sent, no send is pending, the
\* registry is still empty, and the loop goes on as after any publish (the
\* collection loop to its sleep with no failure counted, the prediction loop to
\* its next alert or location).
C21_EmptyPublishIsNoOp ==
    [][\A t \in Tasks :
          (/\ connected_clients = {}
           /\ \/ t = "pred" /\ pc[t] = "broadcast" /\ pc'[t] # "broadcast"
              \/ t = "coll" /\ pc[t] = "start" /\ swept'.task = "coll")
          => /\ swept'.task = t
             /\ swept'.outcome = "returned"
             /\ swept'.delivered = {} /\ swept'.disconnected = {}
             /\ connected_clients' = {}
             /\ ~sweep'[t].active
             /\ ~iterated'.raised
             /\ pc'[t] \in (IF t = "coll" THEN {"sleep"} ELSE {"send_alert", "locate", "sleep"})
             /\ failures'[t] = (IF pc'[t] = "sleep" THEN 0 ELSE failures[t])]_vars

\* an alert was published to an empty registry and the loop went on to the next
\* location
C21_Witness ==
    /\ swept.task = "pred"
    /\ swept.outcome = "returned"
    /\ swept.message.type = "alert"
    /\ swept.snapshot = {}
    /\ connected_clients = {}
    /\ pc["pred"] = "locate"

\* an alert of the same hazard type and severity as the one about to be
\* dispatched is already in the store
Retriggered ==
    /\ pc["pred"] = "send_alert"
    /\ \E i \in DOMAIN alerts :
          /\ alerts[i].type = Head(alerts_triggered).type
          /\ alerts[i].severity = Head(alerts_triggered).severity

\* C22: there is no deduplication or suppression. A hazard condition that
\* triggers again is turned into an alert again whatever the store holds; the
\* dispatch of an alert whose like is already stored creates an alert with an id
\* no stored alert has, attempts its severity's channels, stores it next to the
\* earlier ones, and the loop's next step broadcasts it.
C22_NoSuppression ==
    /\ [](evaluated.called => evaluated.alerts = evaluate(evaluated.results))
    /\ [][(Retriggered /\ pc'["pred"] \notin {"send_alert", "adapter"}) =>
            /\ dispatched'.result = "returned"
            /\ dispatched'.alert.type = Head(alerts_triggered).type
            /\ dispatched'.alert.severity = Head(alerts_triggered).severity
            /\ Range(dispatched'.alert.channels_sent) = SelectedSet(dispatched'.alert.severity)
            /\ dispatched'.alert.id \notin DOMAIN alerts
            /\ DOMAIN alerts' = DOMAIN alerts \cup {dispatched'.alert.id}
            /\ alerts'[dispatched'.alert.id] = dispatched'.alert
            /\ \A i \in DOMAIN alerts : alerts'[i] = alerts[i]
            /\ pc'["pred"] = "broadcast"
            /\ alerts_triggered' = alerts_triggered]_vars
    /\ [][(pc["pred"] = "broadcast" /\ pc'["pred"] # "broadcast") =>
            IF connected_clients = {}
            THEN swept'.task = "pred" /\ swept'.message = AlertMessage(Head(alerts_triggered))
            ELSE sweep'["pred"].message = AlertMessage(Head(alerts_triggered))]_vars

\* the fire condition of an earlier cycle triggered again in a cycle of one
\* location: two critical fire alerts with different ids are stored and the
\* second is about to be broadcast
C22_Witness ==
    /\ pc["pred"] = "broadcast"
    /\ nLocs = 1
    /\ dispatched.result = "returned"
    /\ \E i, j \in DOMAIN alerts :
          /\ i # j
          /\ alerts[i].id # alerts[j].id
          /\ alerts[i].type = "fire" /\ alerts[j].type = "fire"
          /\ alerts[i].severity = "critical" /\ alerts[j].severity = "critical"
          /\ alerts[j] = dispatched.alert

\* C23: the store retains every alert produced. Ids are never reused: each
\* dispatch that returns stores its alert under an id no stored alert has; every
\* entry is filed under its own id; no step removes or changes an entry; and the
\* store changes only when a dispatch returns, by exactly that one entry.
C23_StoreRetainsEveryAlert ==
    /\ [](\A i \in DOMAIN alerts : alerts[i].id = i /\ i \in 1..(nextId - 1))
    /\ [][/\ \A i \in DOMAIN alerts : i \in DOMAIN alerts' /\ alerts'[i] = alerts[i]
          /\ dispatched'.result # "none" =>
                /\ dispatched'.alert.id \notin DOMAIN alerts
                /\ DOMAIN alerts' = DOMAIN alerts \cup {dispatched'.alert.id}
                /\ alerts'[dispatched'.alert.id] = dispatched'.alert
          /\ dispatched'.result = "none" => alerts' = alerts]_vars

\* a moderate alert was stored next to the low one dispatched before it
C23_Witness ==
    /\ dispatched.result = "returned"
    /\ dispatched.alert.severity = "moderate"
    /\ DOMAIN alerts = {1, 2}
    /\ alerts[1].severity = "low"
    /\ alerts[2] = dispatched.alert

\* C24: a publish never raises to its caller when subscriber sends fail, all of
\* them included: a sweep in which a send failed ends by returning.
C24_PublishNeverRaises ==
    (swept.task # "none" /\ swept.disconnected # {}) => swept.outcome = "returned"

\* C25: a manually submitted alert goes to the dispatcher and then to the
\* broadcast hub, without the rule evaluator: the request creates the alert,
\* attempts the channels of its severity, whatever that is, and publishes it
\* to the whole registry.
C25_ManualAlertDispatchedAndBroadcast ==
    dispatched.result = "created" =>
        /\ Range(dispatched.alert.channels_sent) = SelectedSet(dispatched.alert.severity)
        /\ IF connected_clients = {}
           THEN swept.task = "manual" /\ swept.outcome = "returned"
           ELSE /\ sweep["manual"].active
                /\ sweep["manual"].message = AlertMessage(dispatched.alert)
                /\ sweep["manual"].snapshot = connected_clients

\* C26: the evaluator skips a hazard result that has no risk score and still
\* evaluates the other hazard results of the same call: the result without a
\* score yields no alert, every result with a score yields its alert exactly
\* when its score is in an alerting band, and the iteration goes on without
\* raising.
C26_MalformedHazardSkipped ==
    evaluated.called =>
        /\ \A i \in 1..Len(Hazards) :
              LET h == Hazards[i]
                  mine == AlertsOfType(evaluated.alerts, h)
              IN IF HasScore(evaluated.results[h])
                 THEN (mine # {}) <=> (BandOf(evaluated.results[h].risk_score) # "none")
                 ELSE mine = {}
        /\ ~iterated.raised
        /\ pc["pred"] \in {"send_alert", "locate", "sleep"}

\* the pollution result had no risk score (its reading was unusable) and the
\* flood and the fire result of the same call each gave an alert
C26_Witness ==
    /\ evaluated.called
    /\ ~HasScore(evaluated.results["pollution"])
    /\ "pm25" \in evaluated.results["location_data"].bad
    /\ AlertsOfType(evaluated.alerts, "flood") # {}
    /\ AlertsOfType(evaluated.alerts, "fire") # {}

\* C27: a predictor's predict never propagates a failure: whatever the reading,
\* the step of the prediction loop at a location gets the three results and
\* calls the evaluator (nothing is raised), and a predictor that read a field
\* that is not a number returns its degraded result, whose score is zero.
C27_PredictNeverRaises ==
    [][pc["pred"] = "locate" =>
        /\ evaluated'.called
        /\ ~iterated'.raised
        /\ LET results == evaluated'.results
               bad == results["location_data"].bad
           IN /\ bad \cap FloodFields # {} =>
                    results["flood"] = [risk_score |-> 0, status |-> "error"]
              /\ bad \cap FireFields # {} =>
                    results["fire"] = [risk_score |-> 0, status |-> "error"]
              /\ bad \cap PollutionFields # {} =>
                    results["pollution"] = [aqi |-> 0, aqi_category |-> "error"]]_vars

\* the water level of a reading was not a number: the flood result is the
\* degraded one, and the fire result of the same reading gave its alert
C27_Witness ==
    /\ evaluated.called
    /\ "water_level" \in evaluated.results["location_data"].bad
    /\ evaluated.results["flood"].status = "error"
    /\ evaluated.results["flood"].risk_score = 0
    /\ AlertsOfType(evaluated.alerts, "fire") # {}

\* C28: for every reading, each hazard predictor returns a risk score within
\* 0..100, measurements outside their nominal ranges included: the flood and
\* the fire result hold a risk_score between 0 and 100, and the pollution
\* predictor's score, its aqi, is between 0 and 100 too.
C28_ScoresWithinRange ==
    evaluated.called =>
        /\ evaluated.results["flood"].risk_score \in 0..100
        /\ evaluated.results["fire"].risk_score \in 0..100
        /\ evaluated.results["pollution"].aqi \in 0..1000

\* C29: the alert payload the hub delivers for a rule-triggered alert is the
\* alert the dispatch returned: whenever the prediction loop's sweep carries an
\* alert message, its data has an id and channel fields and is the entry stored
\* under that id.
C29_BroadcastsDispatchedAlert ==
    (sweep["pred"].active /\ sweep["pred"].message.type = "alert") =>
        LET a == sweep["pred"].message.data
        IN /\ "id" \in DOMAIN a
           /\ "channels_sent" \in DOMAIN a
           /\ a.id \in DOMAIN alerts
           /\ alerts[a.id] = a

\* C30: an alert is immutable apart from its channel fields, and those are
\* written by one dispatch only: every stored alert has status active; no step
\* changes the id, the type, the severity, the status or the channels of an
\* alert once its dispatch has returned; and the channels of the alert a
\* dispatch returns are the ones whose adapters that dispatch awaited, in its
\* order.
C30_AlertImmutableAfterDispatch ==
    /\ [](\A i \in DOMAIN alerts : alerts[i].status = "active")
    /\ [][/\ \A i \in DOMAIN alerts :
                /\ i \in DOMAIN alerts'
                /\ alerts'[i].id = alerts[i].id
                /\ alerts'[i].type = alerts[i].type
                /\ alerts'[i].severity = alerts[i].severity
                /\ alerts'[i].status = alerts[i].status
                /\ alerts'[i].channels_sent = alerts[i].channels_sent
          /\ dispatched'.result = "returned" =>
                /\ dispatched'.alert.status = "active"
                /\ alerts'[dispatched'.alert.id].channels_sent = dispatched'.alert.channels_sent
                /\ Len(dispatched'.alert.channels_sent) = Len(dispatched'.log)
                /\ \A k \in 1..Len(dispatched'.log) :
                      dispatched'.alert.channels_sent[k] = dispatched'.log[k][1]]_vars

\* a dispatch wrote push_notification and email into its alert while the alert
\* dispatched before it is stored with the one channel of its own dispatch
C30_Witness ==
    /\ dispatched.result = "returned"
    /\ dispatched.alert.id = 2
    /\ dispatched.alert.channels_sent = <<"push_notification", "email">>
    /\ 1 \in DOMAIN alerts
    /\ alerts[1].channels_sent = <<"in_app">>

\* C31: when a dispatch returns, every channel attempt of its alert has
\* completed and none is pending: each adapter of the selected list was awaited
\* until it returned (sent, or its error logged), channels_sent names only
\* channels whose attempt completed, and while an attempt is pending the
\* dispatch has not returned and its alert is not stored.
C31_NoAttemptPendingAtReturn ==
    /\ dispatched.result = "returned" =>
          /\ Invoked(dispatched.log) = Range(ChannelsFor(dispatched.alert.severity))
          /\ \A i \in DOMAIN dispatched.log : dispatched.log[i][2] \in {"sent", "logged_error"}
          /\ Range(dispatched.alert.channels_sent) \subseteq Invoked(dispatched.log)
          /\ pc["pred"] = "broadcast"
    /\ pc["pred"] = "adapter" =>
          /\ dispatched.result = "none"
          /\ (nextId - 1) \notin DOMAIN alerts

\* a moderate alert's dispatch returned after both of its attempts had
\* completed, the second one with an error
C31_Witness ==
    /\ dispatched.result = "returned"
    /\ dispatched.log = << <<"push_notification", "sent">>, <<"email", "logged_error">> >>
    /\ dispatched.alert.channels_sent = <<"push_notification", "email">>

\* C32: in an iteration of the collection loop the readings are persisted before
\* the update is published: while the loop's update is being sent, and when its
\* sweep has ended, the readings of that iteration are persisted; and the step
\* that starts an iteration either persists and then begins the broadcast to the
\* whole registry, or fails in fetching or persisting and broadcasts nothing.
C32_PersistBeforePublish ==
    /\ [](sweep["coll"].active => latest.saved)
    /\ [](swept.task = "coll" => latest.saved)
    /\ [][(pc["coll"] = "start" /\ pc'["coll"] # "start") =>
            IF latest'.saved
            THEN IF connected_clients = {}
                 THEN swept'.task = "coll" /\ swept'.outcome = "returned"
                 ELSE /\ sweep'["coll"].active
                      /\ sweep'["coll"].snapshot = connected_clients
            ELSE /\ pc'["coll"] = "sleep"
                 /\ iterated'.task = "coll" /\ iterated'.raised
                 /\ ~sweep'["coll"].active
                 /\ swept'.task = "none"
                 /\ \A c \in Clients : c \notin sweep'["coll"].delivered]_vars

\* an iteration failed before its readings were persisted while two subscribers
\* were registered: the loop sleeps and nothing was sent
C32_Witness ==
    /\ pc["coll"] = "sleep"
    /\ iterated.task = "coll"
    /\ iterated.raised
    /\ ~latest.saved
    /\ Cardinality(connected_clients) = 2
    /\ swept.task = "none"

\* C33: for each alert of a prediction cycle the order is: all channel attempts,
\* then the write to the store, then the broadcast sweep, and the next dispatch
\* starts only after that sweep is over: the store changes only in the step in
\* which a dispatch returns with every attempt made, and no sweep has begun
\* then; the step that begins an alert's sweep finds that alert stored and leaves
\* the store alone; and no dispatch runs while a sweep of the prediction loop is
\* under way.
C33_AttemptsStoreSweepInOrder ==
    /\ [](pc["pred"] \in {"send_alert", "adapter", "broadcast"} => ~sweep["pred"].active)
    /\ [][/\ alerts' # alerts =>
                /\ pc["pred"] = "send_alert"
                /\ dispatched'.result = "returned"
                /\ Invoked(dispatched'.log) = Range(ChannelsFor(dispatched'.alert.severity))
                /\ pc'["pred"] = "broadcast"
                /\ swept'.task = "none"
          /\ (pc["pred"] = "broadcast" /\ pc'["pred"] # "broadcast") =>
                /\ (nextId - 1) \in DOMAIN alerts
                /\ alerts[nextId - 1].type = Head(alerts_triggered).type
                /\ alerts[nextId - 1].severity = Head(alerts_triggered).severity
                /\ alerts' = alerts
          /\ dispatched'.result # "none" =>
                ~sweep["pred"].active /\ ~sweep'["pred"].active]_vars

\* the sweep of the second alert is under way, one subscriber served, with both
\* alerts stored
C33_Witness ==
    /\ sweep["pred"].active
    /\ sweep["pred"].message.type = "alert"
    /\ sweep["pred"].delivered # {}
    /\ DOMAIN alerts = {1, 2}
    /\ pc["pred"] = "sweep"

\* C34: the write to the store is the last step of send_alert: a call that is
\* left before its channel attempts are finished (an exception, or a cancellation
\* at an adapter's await) leaves the store unchanged, so no stored alert has a
\* channels_sent shorter than the channel list of its severity, and the alert of
\* a call still awaiting an adapter is not stored.
C34_StoreWriteIsLast ==
    /\ [](\A i \in DOMAIN alerts :
             Len(alerts[i].channels_sent) >= Len(ChannelsFor(alerts[i].severity)))
    /\ [](pc["pred"] = "adapter" => (nextId - 1) \notin DOMAIN alerts)
    /\ [][/\ (/\ pc["pred"] \in {"send_alert", "adapter"}
              /\ pc'["pred"] \notin {"send_alert", "adapter", "broadcast"}) => alerts' = alerts
          /\ dispatched'.result = "raised" => alerts' = alerts]_vars

\* the dispatch of the second alert was cancelled while it awaited an adapter:
\* the store holds the first alert only
C34_Witness ==
    /\ pc["pred"] = "cancelled"
    /\ nextId = 3
    /\ DOMAIN alerts = {1}
    /\ ~sweep["pred"].active
    /\ swept.task = "none"

\* C35: a sweep removes from the registry exactly the subscribers whose send
\* raised during it: the step that ends a sweep leaves the registry as it was
\* less those subscribers, so each of them is gone, every subscriber whose send
\* succeeded is still registered, and a sweep without a failed send leaves the
\* registry unchanged.
C35_SweepRemovesExactlyFailed ==
    [][\A t \in Tasks :
          (sweep[t].active /\ swept'.task = t) =>
              connected_clients' = connected_clients \ swept'.disconnected]_vars

\* C36: a socket is in the registry only between its accept and the exit of its
\* handler: a socket not yet accepted and a socket whose handler has exited are
\* not in the registry, the step in which a handler exits leaves its socket out
\* of the registry, and once the handler has exited no later step changes that.
C36_RegisteredOnlyWhileServing ==
    /\ [](\A c \in Clients : handler[c] # "serving" => c \notin connected_clients)
    /\ [][\A c \in Clients :
            /\ (handler[c] = "serving" /\ handler'[c] # "serving") =>
                   c \notin connected_clients'
            /\ handler[c] \in {"closed", "failed"} =>
                   /\ handler'[c] = handler[c]
                   /\ c \notin connected_clients']_vars

\* the handler of socket 1 exited during a sweep that had begun with socket 1
\* registered; the sweep goes on and the registry holds socket 2 only
C36_Witness ==
    /\ handler[1] = "closed"
    /\ handler[2] = "serving"
    /\ connected_clients = {2}
    /\ sweep["coll"].active
    /\ 1 \in sweep["coll"].snapshot

\* C37: send_alert selects channels for every severity value: critical and high
\* give the four channels, moderate and alert data without a severity give
\* push_notification and email (the alert then has severity moderate), and any
\* other value, an unrecognised one included, gives in_app only; the call
\* returns and channels_sent is never empty.
C37_EverySeverityHasChannels ==
    dispatched.result # "none" =>
        LET alert_data == Head(alerts_triggered)
            sent == dispatched.alert.channels_sent
        IN /\ dispatched.result = "returned"
           /\ sent # <<>>
           /\ IF "severity" \notin DOMAIN alert_data
              THEN /\ dispatched.alert.severity = "moderate"
                   /\ sent = <<"push_notification", "email">>
              ELSE /\ dispatched.alert.severity = alert_data.severity
                   /\ alert_data.severity \in {"critical", "high"} =>
                         sent = <<"push_notification", "sms", "email", "webhook">>
                   /\ alert_data.severity = "moderate" =>
                         sent = <<"push_notification", "email">>
                   /\ alert_data.severity \notin {"critical", "high", "moderate"} =>
                         sent = <<"in_app">>

\* alert data without a severity was dispatched as moderate, after an alert of
\* an unrecognised severity had been sent in the app only
C37_Witness ==
    /\ dispatched.result = "returned"
    /\ "severity" \notin DOMAIN Head(alerts_triggered)
    /\ dispatched.alert.severity = "moderate"
    /\ dispatched.alert.channels_sent = <<"push_notification", "email">>
    /\ 1 \in DOMAIN alerts
    /\ alerts[1].severity = "extreme"
    /\ alerts[1].channels_sent = <<"in_app">>
====
